---- MODULE Spec2Model ----
(***************************************************************************)
(* Model of file_sanitizer/core/sanitize.py: the name transform            *)
(* sanitize_name and the tree renamer rename_files / rename_item.          *)
(*                                                                         *)
(* A name is a sequence of character tokens; a path is a sequence of       *)
(* names (pathlib's parts).  The filesystem is a set of entries, each a    *)
(* record [path, kind, id] where id is the identity of the entry (its      *)
(* inode), which a rename preserves.                                       *)
(***************************************************************************)
EXTENDS Integers, Sequences, FiniteSets, TLC

\* ------------------------------------------------------------------------
\* Bounds
\* ------------------------------------------------------------------------
MaxNameLen == 4
MaxEntries == 3
MaxDepth == 2

\* ------------------------------------------------------------------------
\* Characters.  Each token stands for a class of Unicode characters:
\*   "a" "b" "e"   lowercase ASCII letters
\*   "B"           an uppercase ASCII letter (lowercases to "b")
\*   "7"           an ASCII digit
\*   "."  "-"      themselves
\*   "sp"          an ASCII character outside [A-Za-z0-9.-] (space, "_", "!")
\*   "e_acute"     a precomposed accented letter (NFKD: "e" + combining mark)
\*   "acute_mark"  a combining mark (not ASCII)
\*   "cjk"         a non-ASCII character with no decomposition
\* ------------------------------------------------------------------------
InputChars == {"a", "B", "7", ".", "-", "sp", "e_acute", "cjk"}

AsciiChars == {"a", "b", "e", "B", "7", ".", "-", "sp"}

KeptChars == {"a", "b", "e", "7", "."}

Hyphen == "-"

\* unicodedata.normalize("NFKD", c) for one character
NFKDChar(c) == IF c = "e_acute" THEN <<"e", "acute_mark">> ELSE <<c>>

RECURSIVE NFKD(_)
NFKD(s) == IF s = <<>> THEN <<>> ELSE NFKDChar(Head(s)) \o NFKD(Tail(s))

\* name.encode("ascii", "ignore").decode("ascii")
AsciiIgnore(s) == SelectSeq(s, LAMBDA c : c \in AsciiChars)

\* str.lower() on an ASCII string
LowerChar(c) == IF c = "B" THEN "b" ELSE c

Lower(s) == [i \in 1..Len(s) |-> LowerChar(s[i])]

\* re.sub(<class>+, "-", s): every maximal run of matching characters
\* becomes one hyphen.  The class is cls, or its complement when negated.
RECURSIVE ReSubRuns(_, _, _, _)
ReSubRuns(s, cls, negated, inRun) ==
    IF s = <<>> THEN <<>>
    ELSE IF (Head(s) \in cls) # negated
         THEN (IF inRun THEN <<>> ELSE <<Hyphen>>) \o ReSubRuns(Tail(s), cls, negated, TRUE)
         ELSE <<Head(s)>> \o ReSubRuns(Tail(s), cls, negated, FALSE)

\* re.sub(r"[^a-z0-9.]+", "-", name)
ReplaceSpecial(s) == ReSubRuns(s, KeptChars, TRUE, FALSE)

\* re.sub(r"-+", "-", name)
CollapseHyphens(s) == ReSubRuns(s, {Hyphen}, FALSE, FALSE)

RECURSIVE LStrip(_)
LStrip(s) == IF s # <<>> /\ Head(s) = Hyphen THEN LStrip(Tail(s)) ELSE s

RECURSIVE RStrip(_)
RStrip(s) ==
    IF s # <<>> /\ s[Len(s)] = Hyphen THEN RStrip(SubSeq(s, 1, Len(s) - 1)) ELSE s

\* name.strip("-")
Strip(s) == RStrip(LStrip(s))

\* Variants of sanitize_name with a plausible slip: the final strip left
\* out, and the strip done before the replacement instead of after it.
sanitize_name_nostrip(name) ==
    CollapseHyphens(ReplaceSpecial(Lower(AsciiIgnore(NFKD(name)))))

sanitize_name_stripfirst(name) ==
    CollapseHyphens(ReplaceSpecial(Strip(Lower(AsciiIgnore(NFKD(name))))))

sanitize_name(name) ==
    Strip(CollapseHyphens(ReplaceSpecial(Lower(AsciiIgnore(NFKD(name))))))

\* ------------------------------------------------------------------------
\* State
\* ------------------------------------------------------------------------
VARIABLES
    fs,        \* the filesystem: set of [path, kind, id]
    dry_run,   \* rename_files' dry_run argument
    fs0,       \* the filesystem as it was when rename_files was called
    pc,        \* "start", "loop", "done", "crashed"; "idle" while rename_files is not running
    paths,     \* list(target_path.rglob("*")), sorted
    idx,       \* position of the for loop in paths (1-based)
    called,    \* the paths rename_item has been called on, in order
    outcomes,  \* the records rename_item has logged, in order
    error,     \* the error rename_files logged up front, or "none"
    attempts,  \* number of Path.rename calls made
    s_in,      \* input of the sanitize_name calls
    s_out,     \* result of the last sanitize_name call
    s_first,   \* result of the first sanitize_name call
    s_calls    \* number of sanitize_name calls chained so far

treeVars == <<fs, dry_run, fs0, pc, paths, idx, called, outcomes, error, attempts>>
nameVars == <<s_in, s_out, s_first, s_calls>>
vars == <<fs, dry_run, fs0, pc, paths, idx, called, outcomes, error, attempts,
          s_in, s_out, s_first, s_calls>>

\* ------------------------------------------------------------------------
\* Paths and the filesystem
\* ------------------------------------------------------------------------
Last(s) == s[Len(s)]

\* Path.parent
Parent(p) == SubSeq(p, 1, Len(p) - 1)

IsProperPrefix(p, q) == Len(p) < Len(q) /\ SubSeq(q, 1, Len(p)) = p

\* the resolved target directory handed to rename_files
Target == << <<"a">> >>

DotDot == <<".", ".">>

\* names the entries of the modelled trees carry
NameSet == { <<"B">>, <<"b">>, <<"b", "sp">>, <<"cjk">> }

Entry(p, k) == [path |-> p, kind |-> k, id |-> p]

\* Path.exists(); a final ".." component resolves to the directory above
Exists(f, p) ==
    IF Last(p) = DotDot
    THEN \E e \in f : e.path = Parent(p) /\ e.kind = "FOLDER"
    ELSE \E e \in f : e.path = p

\* Path.is_dir()
IsDir(f, p) == \E e \in f : e.path = p /\ e.kind = "FOLDER"

\* places where one more entry fits into tree t
ChildPaths(t) ==
    { q \in { e.path \o <<n>> : e \in { d \in t : d.kind = "FOLDER" }, n \in NameSet } :
        Len(q) <= Len(Target) + MaxDepth /\ ~ \E e \in t : e.path = q }

\* the trees under Target with at most n entries
RECURSIVE TreesUpTo(_)
TreesUpTo(n) ==
    IF n = 0 THEN { { Entry(Target, "FOLDER") } }
    ELSE LET T == TreesUpTo(n - 1)
         IN  T \cup UNION { { t \cup { Entry(q, k) } : q \in ChildPaths(t), k \in {"FILE", "FOLDER"} }
                            : t \in T }

\* a missing target, a target that is a regular file, or a directory tree
InitialFilesystems ==
    { {} } \cup { { Entry(Target, "FILE") } } \cup TreesUpTo(MaxEntries)

\* all orders in which a directory listing may return the set S of paths
Orders(S) ==
    { l \in [1..Cardinality(S) -> S] : \A i, j \in 1..Cardinality(S) : i # j => l[i] # l[j] }

\* list(target_path.rglob("*")): every descendant of a directory, in the
\* order the listing returns them; nothing when the path is not a directory
RGlob(f, target) ==
    IF IsDir(f, target)
    THEN Orders({ e.path : e \in { d \in f : IsProperPrefix(target, d.path) } })
    ELSE { <<>> }

\* stable insertion of x behind the elements of s that sort before it
InsertDesc(x, s) ==
    LET k == Cardinality({ i \in 1..Len(s) : Len(s[i]) >= Len(x) })
    IN  SubSeq(s, 1, k) \o <<x>> \o SubSeq(s, k + 1, Len(s))

InsertAsc(x, s) ==
    LET k == Cardinality({ i \in 1..Len(s) : Len(s[i]) <= Len(x) })
    IN  SubSeq(s, 1, k) \o <<x>> \o SubSeq(s, k + 1, Len(s))

\* Variants of the sort: left out, and shallowest first.
SortByDepth_unsorted(ps) == ps

RECURSIVE SortByDepth_ascending(_)
SortByDepth_ascending(ps) ==
    IF ps = <<>> THEN <<>>
    ELSE InsertAsc(Last(ps), SortByDepth_ascending(Parent(ps)))

\* paths.sort(key=lambda p: len(p.parts), reverse=True)
RECURSIVE SortByDepth(_)
SortByDepth(ps) ==
    IF ps = <<>> THEN <<>>
    ELSE InsertDesc(Last(ps), SortByDepth(Parent(ps)))

\* Path.with_name(name) raises ValueError for these names
InvalidName(name) == name = <<>> \/ name = <<".">>

\* Path.with_name(name)
WithName(p, name) == Parent(p) \o <<name>>

\* Variant: the unchanged-name test left out.
SamePath_never(item_path, new_path) == FALSE

\* item_path == new_path
SamePath(item_path, new_path) == item_path = new_path

\* Variant: the collision test left out.
Collides_never(f, new_path) == FALSE

\* new_path.exists()
Collides(f, new_path) == Exists(f, new_path)

\* Variant: the dry_run test left out.
Applies_always(dry) == TRUE

\* the else branch of "if dry_run"
Applies(dry) == ~dry

\* os.rename(src, dst) raises: src is gone, or dst is occupied by something
\* src cannot replace
OsRenameFails(f, src, dst) ==
    \/ ~ \E e \in f : e.path = src
    \/ \E e \in f : /\ e.path = dst
                    /\ \/ e.kind # (CHOOSE s \in f : s.path = src).kind
                       \/ \E c \in f : IsProperPrefix(dst, c.path)

\* os.rename(src, dst): src and everything below it moves to dst; whatever
\* was at dst is replaced
OsRename(f, src, dst) ==
    IF src = dst THEN f
    ELSE LET moved == { e \in f : e.path = src \/ IsProperPrefix(src, e.path) }
             gone  == { e \in f : e.path = dst }
         IN  (f \ (moved \cup gone)) \cup
             { [e EXCEPT !.path = dst \o SubSeq(e.path, Len(src) + 1, Len(e.path))] : e \in moved }

\* ------------------------------------------------------------------------
\* rename_files
\* ------------------------------------------------------------------------
Init ==
    /\ fs \in InitialFilesystems
    /\ dry_run \in BOOLEAN
    /\ fs0 = fs
    /\ pc = "start"
    /\ paths = <<>>
    /\ idx = 1
    /\ called = <<>>
    /\ outcomes = <<>>
    /\ error = "none"
    /\ attempts = 0
    /\ s_in = <<>> /\ s_out = <<>> /\ s_first = <<>> /\ s_calls = 0

\* target_path does not exist: log the error and return
RenameFilesMissing ==
    /\ pc = "start"
    /\ ~Exists(fs, Target)
    /\ error' = "PathDoesNotExist"
    /\ pc' = "done"
    /\ UNCHANGED <<fs, dry_run, fs0, paths, idx, called, outcomes, attempts>>
    /\ UNCHANGED nameVars

\* gather the snapshot and sort it deepest first
RenameFilesGather ==
    /\ pc = "start"
    /\ Exists(fs, Target)
    /\ \E l \in RGlob(fs, Target) : paths' = SortByDepth(l)
    /\ pc' = "loop"
    /\ UNCHANGED <<fs, dry_run, fs0, idx, called, outcomes, error, attempts>>
    /\ UNCHANGED nameVars

\* the for loop is exhausted
LoopEnd ==
    /\ pc = "loop"
    /\ idx > Len(paths)
    /\ pc' = "done"
    /\ UNCHANGED <<fs, dry_run, fs0, paths, idx, called, outcomes, error, attempts>>
    /\ UNCHANGED nameVars

\* ------------------------------------------------------------------------
\* rename_item, one action per way through it
\* ------------------------------------------------------------------------
InLoop == pc = "loop" /\ idx <= Len(paths)

item_path == paths[idx]

old_name == Last(item_path)

new_name == sanitize_name(old_name)

new_path == WithName(item_path, new_name)

item_type == IF IsDir(fs, item_path) THEN "FOLDER" ELSE "FILE"

Logged(what) == [outcome |-> what, item |-> item_path, kind |-> item_type]

\* rename_item returns, the loop moves on
Return(what) ==
    /\ called' = Append(called, item_path)
    /\ outcomes' = IF what = "none" THEN outcomes ELSE Append(outcomes, Logged(what))
    /\ idx' = idx + 1
    /\ UNCHANGED <<dry_run, fs0, pc, paths, error>>
    /\ UNCHANGED nameVars

\* with_name raises ValueError; nothing catches it and the run ends
ItemInvalidName ==
    /\ InLoop
    /\ InvalidName(new_name)
    /\ called' = Append(called, item_path)
    /\ pc' = "crashed"
    /\ UNCHANGED <<fs, dry_run, fs0, paths, idx, outcomes, error, attempts>>
    /\ UNCHANGED nameVars

ItemNoChange ==
    /\ InLoop
    /\ ~InvalidName(new_name)
    /\ SamePath(item_path, new_path)
    /\ Return("none")
    /\ UNCHANGED <<fs, attempts>>

ItemCollision ==
    /\ InLoop
    /\ ~InvalidName(new_name)
    /\ ~SamePath(item_path, new_path)
    /\ Collides(fs, new_path)
    /\ Return("Collision")
    /\ UNCHANGED <<fs, attempts>>

ItemDryRun ==
    /\ InLoop
    /\ ~InvalidName(new_name)
    /\ ~SamePath(item_path, new_path)
    /\ ~Collides(fs, new_path)
    /\ ~Applies(dry_run)
    /\ Return("DryRun")
    /\ UNCHANGED <<fs, attempts>>

CallsRename ==
    /\ InLoop
    /\ ~InvalidName(new_name)
    /\ ~SamePath(item_path, new_path)
    /\ ~Collides(fs, new_path)
    /\ Applies(dry_run)

ItemRenamed ==
    /\ CallsRename
    /\ ~OsRenameFails(fs, item_path, new_path)
    /\ fs' = OsRename(fs, item_path, new_path)
    /\ attempts' = attempts + 1
    /\ Return("Success")

\* the filesystem denies the rename
ItemPermissionDenied ==
    /\ CallsRename
    /\ attempts' = attempts + 1
    /\ Return("PermissionDenied")
    /\ UNCHANGED fs

\* the rename fails in any other way
ItemUnexpectedError ==
    /\ CallsRename
    /\ attempts' = attempts + 1
    /\ Return("Unexpected")
    /\ UNCHANGED fs

Next ==
    \/ RenameFilesMissing
    \/ RenameFilesGather
    \/ LoopEnd
    \/ ItemInvalidName
    \/ ItemNoChange
    \/ ItemCollision
    \/ ItemDryRun
    \/ ItemRenamed
    \/ ItemPermissionDenied
    \/ ItemUnexpectedError

Spec == Init /\ [][Next]_vars

TypeOK ==
    /\ pc \in {"start", "loop", "done", "crashed"}
    /\ idx \in 1..(Len(paths) + 1)
    /\ Len(called) <= Len(paths)

\* ------------------------------------------------------------------------
\* sanitize_name on its own: an input name, then sanitize_name applied to
\* it and again to its result
\* ------------------------------------------------------------------------
MaxCalls == 2

NameInputs == UNION { [1..n -> InputChars] : n \in 0..MaxNameLen }

SanitizeInit ==
    /\ s_in \in NameInputs
    /\ s_out = <<>> /\ s_first = <<>> /\ s_calls = 0
    /\ fs = {} /\ fs0 = {} /\ dry_run = TRUE /\ pc = "idle"
    /\ paths = <<>> /\ idx = 1
    /\ called = <<>> /\ outcomes = <<>> /\ error = "none" /\ attempts = 0

SanitizeCall ==
    /\ s_calls < MaxCalls
    /\ s_out' = sanitize_name(IF s_calls = 0 THEN s_in ELSE s_out)
    /\ s_first' = IF s_calls = 0 THEN s_out' ELSE s_first
    /\ s_calls' = s_calls + 1
    /\ UNCHANGED <<s_in, treeVars>>

SanitizeNext == SanitizeCall

SanitizeSpec == SanitizeInit /\ [][SanitizeNext]_vars

\* ------------------------------------------------------------------------
\* Properties
\* ------------------------------------------------------------------------
Range(s) == { s[i] : i \in 1..Len(s) }

Failed(o) == o.outcome \in {"PermissionDenied", "Unexpected"}

Finished == pc \in {"done", "crashed"}

\* the called entries for which rename_item gets as far as the collision test
NeedsRename(p) ==
    /\ ~InvalidName(sanitize_name(Last(p)))
    /\ sanitize_name(Last(p)) # Last(p)

\* C1: every descendant of a snapshot directory has had rename_item called
\* on it before the directory itself, whatever order the listing came in.
C1_DescendantsBeforeParents ==
    \A i \in 1..Len(called) :
        \A d \in Range(paths) :
            IsProperPrefix(called[i], d) => \E j \in 1..(i - 1) : called[j] = d

\* a directory and an entry below it have both been processed
C1_Witness ==
    \E i, j \in 1..Len(called) : IsProperPrefix(called[i], called[j])

\* C2: in apply mode every snapshot entry not yet processed is still found
\* at its captured path (same entry, same place).
C2_PendingPathsStillValid ==
    (~dry_run /\ pc = "loop") =>
        \A j \in idx..Len(paths) :
            \E e \in fs : e.path = paths[j] /\ e.id = paths[j]

\* a child has been renamed on disk and its parent directory is up next
C2_Witness ==
    /\ ~dry_run
    /\ InLoop
    /\ \E k \in 1..Len(outcomes) :
          /\ outcomes[k].outcome = "Success"
          /\ IsProperPrefix(item_path, outcomes[k].item)

\* C3: a dry run leaves the filesystem exactly as it found it and never
\* calls rename.
C3_DryRunNoMutation == dry_run => (fs = fs0 /\ attempts = 0)

\* a dry run has finished and reported a name it would change
C3_Witness ==
    /\ dry_run
    /\ pc = "done"
    /\ \E k \in 1..Len(outcomes) : outcomes[k].outcome = "DryRun"

\* C4: a target that is missing or not a directory ends the run with an
\* error reported and nothing processed.
C4_BadTargetIsConfigurationError ==
    (Finished /\ ~IsDir(fs0, Target)) =>
        (error # "none" /\ called = <<>> /\ attempts = 0)

\* C5: the run is never aborted at an entry whose name sanitizes to the
\* empty string.
C5_EmptyNameSkipped ==
    \A i \in 1..Len(called) :
        sanitize_name(Last(called[i])) = <<>> => (pc # "crashed" \/ i < Len(called))

\* C6: in apply mode, when the sibling path of the sanitized name is occupied
\* by another entry, the step changes nothing on disk, calls no rename and
\* moves on to the next entry.
C6_CollisionSkipped ==
    [][ ( /\ InLoop
          /\ ~dry_run
          /\ ~InvalidName(new_name)
          /\ new_path # item_path
          /\ Exists(fs, new_path) )
        => ( /\ fs' = fs
             /\ attempts' = attempts
             /\ idx' = idx + 1
             /\ pc' = "loop"
             /\ called' = Append(called, item_path) ) ]_vars

\* apply mode reported a collision and then went on to another entry, with
\* every entry of the tree still on disk
C6_Witness ==
    /\ ~dry_run
    /\ \E k \in 1..Len(outcomes) :
          /\ outcomes[k].outcome = "Collision"
          /\ Last(called) # outcomes[k].item
    /\ { e.id : e \in fs } = { e.id : e \in fs0 }

\* C7: once the run has ended, every snapshot entry behind one whose rename
\* failed has been processed.
C7_EntriesAfterFailureProcessed ==
    (~dry_run /\ Finished) =>
        \A k \in 1..Len(outcomes) :
            Failed(outcomes[k]) =>
                \A i, j \in 1..Len(paths) :
                    (paths[i] = outcomes[k].item /\ i < j) => paths[j] \in Range(called)

Canonical(s) ==
    /\ \A i \in 1..Len(s) : s[i] \in KeptChars \cup {Hyphen}
    /\ s # <<>> => (s[1] # Hyphen /\ s[Len(s)] # Hyphen)
    /\ \A i \in 1..(Len(s) - 1) : ~(s[i] = Hyphen /\ s[i + 1] = Hyphen)

\* C9: whatever sanitize_name returns is in canonical form.
C9_ResultCanonical == s_calls >= 1 => Canonical(s_out)

\* a name with a special character at each end and two in a row inside has
\* been sanitized to something non-empty
C9_Witness ==
    /\ s_calls = 1
    /\ Len(s_in) >= 4
    /\ s_in[1] \in {"sp", Hyphen}
    /\ s_in[Len(s_in)] \in {"sp", Hyphen, "cjk"}
    /\ s_out # <<>>

\* C10: sanitizing a sanitized name gives it back.
C10_Idempotent == s_calls >= 2 => s_out = s_first

\* a name that sanitize_name changed has been sanitized twice
C10_Witness ==
    /\ s_calls = 2
    /\ s_first # s_in
    /\ s_first # <<>>

====
